---------------------------- MODULE Spec2Model ----------------------------
(***************************************************************************)
(* Model of the policy evaluation engine of repo-policy-gate               *)
(* (src/src/index.js): severity model, deny-rule parser, lock manifest     *)
(* reader, compileViolations and the verdict computed by run.              *)
(*                                                                         *)
(* Text is a sequence of one-character strings, so that slicing, trimming, *)
(* lastIndexOf and concatenation are computed as the code computes them.   *)
(* Severity values and file names are only ever compared as wholes and are *)
(* kept as atomic strings.                                                 *)
(***************************************************************************)
EXTENDS Integers, Sequences, FiniteSets, TLC

VARIABLES
    config,      \* the loaded configuration, or NoConfig (null)
    prTitle,     \* the pull request title, or NULL when unset
    existing,    \* the file tree: the set of paths for which fileExists is true
    lockFile,    \* package-lock.json on disk: missing, unparseable or parsed
    arg,         \* the argument handed to a function applied on its own
    result,      \* what a function applied on its own returned
    violations,  \* the violation list returned
    threw,       \* an exception was thrown
    failing,     \* the result of shouldFail / the failing flag of run
    status,      \* the status computed by run
    pc           \* position of the evaluation

vars == <<config, prTitle, existing, lockFile, arg, result, violations, threw, failing, status, pc>>

(***************************************************************************)
(* Bounds of the model.                                                    *)
(***************************************************************************)
MaxTitleLen == 2
MaxDeny == 2
MaxViolations == 2
MaxPackages == 3
MaxDepth == 2
MaxRuleLen == 4

(***************************************************************************)
(* JavaScript values.                                                      *)
(***************************************************************************)
\* null / undefined where a text is expected
NULL == <<"null">>
\* a configuration key that is not set (fail_on, an override value)
UNSET == "<unset>"
\* config === null
NoConfig == [absent |-> TRUE]

\* JavaScript truthiness of a text: null, undefined and "" are falsy
Truthy(s) == s # NULL /\ s # <<>>
\* JavaScript truthiness of a scalar configuration value
TruthyVal(s) == s # UNSET /\ s # ""

SubSeqFrom(s, i) == IF i > Len(s) THEN <<>> ELSE SubSeq(s, i, Len(s))

\* String.prototype.trim
RECURSIVE TrimLeft(_)
TrimLeft(s) == IF s # <<>> /\ Head(s) = " " THEN TrimLeft(Tail(s)) ELSE s

RECURSIVE TrimRight(_)
TrimRight(s) ==
    IF s # <<>> /\ s[Len(s)] = " " THEN TrimRight(SubSeq(s, 1, Len(s) - 1)) ELSE s

Trim(s) == TrimRight(TrimLeft(s))

\* String.prototype.lastIndexOf for a one-character needle, 0-based, -1 if absent
RECURSIVE LastIndexOf(_, _)
LastIndexOf(s, c) ==
    IF s = <<>> THEN -1
    ELSE IF s[Len(s)] = c THEN Len(s) - 1
    ELSE LastIndexOf(SubSeq(s, 1, Len(s) - 1), c)

(***************************************************************************)
(* SeverityModel.                                                          *)
(***************************************************************************)
normalizeSeverity(s) == IF s = "warn" \/ s = "warning" THEN "warn" ELSE "error"

severityRank(sev) == IF normalizeSeverity(sev) = "warn" THEN 1 ELSE 2

\* config?.severity_overrides || {} : a function from the ruleIds that have
\* an entry to the raw value of the entry
OverridesOf(cfg) == IF cfg = NoConfig THEN <<>> ELSE cfg.severity_overrides

\* overrides[v.ruleId], undefined when there is no entry
OverrideLookup(overrides, ruleId) ==
    IF ruleId \in DOMAIN overrides THEN overrides[ruleId] ELSE UNSET

OverrideOne(overrides, v) ==
    IF TruthyVal(OverrideLookup(overrides, v.ruleId))
    THEN [v EXCEPT !.severity = normalizeSeverity(overrides[v.ruleId])]
    ELSE v

\* faulty variant: every violation is set to warn
applySeverityOverrides_all(cfg, vs) ==
    [i \in 1..Len(vs) |-> [vs[i] EXCEPT !.severity = "warn"]]

applySeverityOverrides(cfg, vs) ==
    [i \in 1..Len(vs) |-> OverrideOne(OverridesOf(cfg), vs[i])]

FailOnOf(cfg) ==
    IF cfg # NoConfig /\ TruthyVal(cfg.fail_on) THEN cfg.fail_on ELSE "error"

\* faulty variant: the comparison with the threshold is strict
shouldFail_strict(cfg, vs) ==
    \E i \in 1..Len(vs) : severityRank(vs[i].severity) > severityRank(normalizeSeverity(FailOnOf(cfg)))

shouldFail(cfg, vs) ==
    LET failOn == normalizeSeverity(FailOnOf(cfg))
        threshold == severityRank(failOn)
    IN \E i \in 1..Len(vs) : severityRank(vs[i].severity) >= threshold

(***************************************************************************)
(* RegExp, for the patterns built from literal characters, the assertion   *)
(* ^ and the group opener ( .  A pattern with an unclosed ( does not       *)
(* compile (SyntaxError: unterminated group).                              *)
(***************************************************************************)
RegExpCompiles(p) == \A i \in 1..Len(p) : p[i] # "("

\* the pattern from position k on matches the text t starting at offset pos
RECURSIVE MatchAt(_, _, _, _)
MatchAt(p, k, t, pos) ==
    IF k > Len(p) THEN TRUE
    ELSE IF p[k] = "^" THEN pos = 0 /\ MatchAt(p, k + 1, t, pos)
    ELSE pos < Len(t) /\ t[pos + 1] = p[k] /\ MatchAt(p, k + 1, t, pos + 1)

\* re.test(t): an unanchored search
RegExpTest(p, t) == \E start \in 0..Len(t) : MatchAt(p, 1, t, start)

(***************************************************************************)
(* DenyRuleParser.                                                         *)
(***************************************************************************)
\* x || null for a text x
OrNull(s) == IF s = <<>> THEN NULL ELSE s

\* faulty variant: the rule is split at the first "@"
parseDenyRule_first(rule) ==
    LET ats == {i \in 1..Len(rule) : rule[i] = "@"}
        idx == IF ats = {} THEN -1 ELSE (CHOOSE i \in ats : \A j \in ats : i <= j) - 1
    IN IF idx > 0
       THEN [name |-> SubSeq(rule, 1, idx), range |-> OrNull(Trim(SubSeqFrom(rule, idx + 2)))]
       ELSE [name |-> Trim(rule), range |-> NULL]

parseDenyRule(rule) ==
    LET idx == LastIndexOf(rule, "@")
    IN IF idx > 0
       THEN [name |-> SubSeq(rule, 1, idx), range |-> OrNull(Trim(SubSeqFrom(rule, idx + 2)))]
       ELSE [name |-> Trim(rule), range |-> NULL]

(***************************************************************************)
(* The semver library, for numeric versions and for ranges that are a      *)
(* space-separated list of comparators [op]N[.N[.N]], op one of            *)
(* < <= > >= = .  Anything else in a comparator makes the range invalid.   *)
(***************************************************************************)
Digits == {"0", "1", "2", "3", "4", "5", "6", "7", "8", "9"}

DigitVal(c) ==
    CASE c = "0" -> 0 [] c = "1" -> 1 [] c = "2" -> 2 [] c = "3" -> 3 [] c = "4" -> 4
      [] c = "5" -> 5 [] c = "6" -> 6 [] c = "7" -> 7 [] c = "8" -> 8 [] c = "9" -> 9

\* the index after the maximal run of digits of s that starts at i
RECURSIVE DigitRunEnd(_, _)
DigitRunEnd(s, i) ==
    IF i <= Len(s) /\ s[i] \in Digits THEN DigitRunEnd(s, i + 1) ELSE i

\* the number written by the digits s[i..j-1]
RECURSIVE NumVal(_, _, _)
NumVal(s, i, j) ==
    IF j <= i THEN 0 ELSE NumVal(s, i, j - 1) * 10 + DigitVal(s[j - 1])

\* the position of the first digit of s at or after i, 0 if there is none
RECURSIVE FirstDigit(_, _)
FirstDigit(s, i) ==
    IF i > Len(s) THEN 0 ELSE IF s[i] \in Digits THEN i ELSE FirstDigit(s, i + 1)

\* the numeric components N[.N[.N]] read from position i: at most max of them
RECURSIVE ReadParts(_, _, _)
ReadParts(s, i, max) ==
    LET j == DigitRunEnd(s, i)
    IN IF j = i \/ max = 0 THEN [parts |-> <<>>, next |-> i]
       ELSE IF max > 1 /\ j < Len(s) /\ s[j] = "." /\ s[j + 1] \in Digits
            THEN LET r == ReadParts(s, j + 1, max - 1)
                 IN [parts |-> <<NumVal(s, i, j)>> \o r.parts, next |-> r.next]
            ELSE [parts |-> <<NumVal(s, i, j)>>, next |-> j]

Pad3(parts) ==
    [k \in 1..3 |-> IF k <= Len(parts) THEN parts[k] ELSE 0]

\* semver.coerce(version).version as <<major, minor, patch>>, <<>> for null
semverCoerce(version) ==
    LET i == FirstDigit(version, 1)
    IN IF i = 0 THEN <<>> ELSE Pad3(ReadParts(version, i, 3).parts)

VersionLess(a, b) ==
    \/ a[1] < b[1]
    \/ a[1] = b[1] /\ a[2] < b[2]
    \/ a[1] = b[1] /\ a[2] = b[2] /\ a[3] < b[3]

\* the fields of a text split at runs of spaces
RECURSIVE SplitSpaces(_)
SplitSpaces(s) ==
    LET t == TrimLeft(s)
    IN IF t = <<>> THEN <<>>
       ELSE LET n == CHOOSE k \in 1..Len(t) :
                        /\ \A m \in 1..k : t[m] # " "
                        /\ (k = Len(t) \/ t[k + 1] = " ")
            IN <<SubSeq(t, 1, n)>> \o SplitSpaces(SubSeqFrom(t, n + 1))

StartsWith(s, prefix) ==
    Len(s) >= Len(prefix) /\ SubSeq(s, 1, Len(prefix)) = prefix

\* one comparator: its operator and numeric components, or not ok
ParseComparator(c) ==
    LET op == IF StartsWith(c, <<"<", "=">>) THEN "<="
              ELSE IF StartsWith(c, <<">", "=">>) THEN ">="
              ELSE IF StartsWith(c, <<"<">>) THEN "<"
              ELSE IF StartsWith(c, <<">">>) THEN ">"
              ELSE IF StartsWith(c, <<"=">>) THEN "="
              ELSE ""
        from == (IF op = "" THEN 0 ELSE IF op \in {"<=", ">="} THEN 2 ELSE 1) + 1
        r == ReadParts(c, from, 3)
    IN [ok |-> r.parts # <<>> /\ r.next = Len(c) + 1, op |-> op, parts |-> r.parts]

\* semver.validRange(range) is not null
semverValidRange(range) ==
    LET cs == SplitSpaces(range)
    IN cs # <<>> /\ \A i \in 1..Len(cs) : ParseComparator(cs[i]).ok

\* the first version above every version a partial N or N.N stands for
UpperOf(parts) ==
    IF Len(parts) = 1 THEN <<parts[1] + 1, 0, 0>> ELSE <<parts[1], parts[2] + 1, 0>>

ComparatorTest(v, op, parts) ==
    LET lo == Pad3(parts)
        full == Len(parts) = 3
    IN CASE op \in {"", "="} ->
              IF full THEN v = lo ELSE ~VersionLess(v, lo) /\ VersionLess(v, UpperOf(parts))
         [] op = "<" -> VersionLess(v, lo)
         [] op = ">=" -> ~VersionLess(v, lo)
         [] op = ">" -> IF full THEN VersionLess(lo, v) ELSE ~VersionLess(v, UpperOf(parts))
         [] op = "<=" -> IF full THEN ~VersionLess(lo, v) ELSE VersionLess(v, UpperOf(parts))

\* semver.satisfies(v, range, {includePrerelease: true}) for a coerced v
semverSatisfies(v, range) ==
    LET cs == SplitSpaces(range)
    IN /\ semverValidRange(range)
       /\ \A i \in 1..Len(cs) :
            LET c == ParseComparator(cs[i]) IN ComparatorTest(v, c.op, c.parts)

(***************************************************************************)
(* LockManifestReader.                                                     *)
(*                                                                         *)
(* lockFile is [state |-> "missing"], [state |-> "invalid_json"] or        *)
(* [state |-> "parsed", lock |-> v], v the value JSON.parse returned:      *)
(* JsonNull (null and the other falsy JSON values) or an object            *)
(* [packages, dependencies].  packages lists the entries of lock.packages  *)
(* in Object.entries order, each [path, name, version]; dependencies lists *)
(* the nodes of the lock.dependencies tree, each [name, version,           *)
(* dependencies].  A key that is not set reads as the empty text or the    *)
(* empty list, which the code treats the same way (both are falsy, and an  *)
(* absent and an empty mapping contribute no entries).                     *)
(***************************************************************************)
JsonNull == [falsy |-> TRUE]

readPackageLock(lf) ==
    CASE lf.state = "missing" -> [lock |-> JsonNull, reason |-> "missing"]
      [] lf.state = "invalid_json" -> [lock |-> JsonNull, reason |-> "invalid_json"]
      [] OTHER -> [lock |-> lf.lock, reason |-> "null"]

NodeModulesPrefix ==
    <<"n", "o", "d", "e", "_", "m", "o", "d", "u", "l", "e", "s", "/">>

\* the name recorded for one entry of lock.packages, "" when there is none
FlatName(entry) ==
    IF ~Truthy(entry.name) /\ StartsWith(entry.path, NodeModulesPrefix)
    THEN SubSeqFrom(entry.path, Len(NodeModulesPrefix) + 1)
    ELSE entry.name

\* the loop over Object.entries(lock.packages)
RECURSIVE CollectFlat(_)
CollectFlat(entries) ==
    IF entries = <<>> THEN <<>>
    ELSE LET e == Head(entries)
         IN (IF Truthy(e.version) /\ Truthy(FlatName(e))
             THEN <<[name |-> FlatName(e), version |-> e.version]>>
             ELSE <<>>) \o CollectFlat(Tail(entries))

\* walk(deps): every node, parents before their children
RECURSIVE Walk(_)
Walk(deps) ==
    IF deps = <<>> THEN <<>>
    ELSE LET n == Head(deps)
         IN (IF Truthy(n.version) THEN <<[name |-> n.name, version |-> n.version]>> ELSE <<>>)
            \o Walk(n.dependencies) \o Walk(Tail(deps))

DepKey(d) == d.name \o <<"@">> \o d.version

\* out.filter with the seen set: the first record of every key is kept
RECURSIVE Dedupe(_, _)
Dedupe(out, seen) ==
    IF out = <<>> THEN <<>>
    ELSE IF DepKey(Head(out)) \in seen THEN Dedupe(Tail(out), seen)
    ELSE <<Head(out)>> \o Dedupe(Tail(out), seen \cup {DepKey(Head(out))})

collectDepsFromLock(lock) ==
    LET flat == CollectFlat(lock.packages)
        tree == IF lock.packages = <<>> THEN Walk(lock.dependencies) ELSE <<>>
    IN Dedupe(flat \o tree, {})

(***************************************************************************)
(* compileViolations.                                                      *)
(*                                                                         *)
(* A configuration is NoConfig or a record                                 *)
(*   title_regex        : pull_request.title_regex, a text or NULL         *)
(*   required_files     : repo.required_files, a list of paths             *)
(*   deny               : dependencies.deny, a list of rule texts          *)
(*   severity_overrides : a function from ruleIds to raw severity values   *)
(*   fail_on            : a raw severity value or UNSET                    *)
(* A list that is not set reads as the empty list: the code skips both.    *)
(*                                                                         *)
(* A violation is [ruleId, severity, message, howToFix]; a message is the  *)
(* template of the code's template literal and the texts put into it.      *)
(***************************************************************************)
RuleIds ==
    {"config_missing", "title_regex_invalid", "pr_title_regex", "required_files",
     "package_lock_missing", "dependency_denylist_invalid", "dependency_denylist"}

Violation(ruleId, severity, template, args, howToFix) ==
    [ruleId |-> ruleId, severity |-> severity,
     message |-> [template |-> template, args |-> args], howToFix |-> howToFix]

\* faulty variant: the severity is error
ConfigMissingViolation_error ==
    Violation("config_missing", "error", "No policy config found", <<>>, "Add a .repo-policy.yml file")

ConfigMissingViolation ==
    Violation("config_missing", "warn", "No policy config found", <<>>, "Add a .repo-policy.yml file")

\* prTitle || ""
TitleOrEmpty(title) == IF Truthy(title) THEN title ELSE <<>>

PrTitleViolation(cfg, title) ==
    Violation("pr_title_regex", "error", "PR title did not match",
              <<cfg.title_regex, title>>, "Rename the PR")

TitleInvalidViolation(cfg) ==
    Violation("title_regex_invalid", "error", "title_regex is not a valid RegExp",
              <<cfg.title_regex>>, "Fix the regex")

\* faulty variant: the SyntaxError of new RegExp is not caught
TitleRule_uncaught(cfg, title) ==
    IF ~Truthy(cfg.title_regex) THEN [threw |-> FALSE, stop |-> FALSE, vs |-> <<>>]
    ELSE IF ~RegExpCompiles(cfg.title_regex) THEN [threw |-> TRUE, stop |-> TRUE, vs |-> <<>>]
    ELSE [threw |-> FALSE, stop |-> FALSE,
          vs |-> IF ~RegExpTest(cfg.title_regex, TitleOrEmpty(title))
                 THEN <<PrTitleViolation(cfg, title)>> ELSE <<>>]

\* faulty variant: the catch block does not return
TitleRule_continue(cfg, title) ==
    IF ~Truthy(cfg.title_regex) THEN [threw |-> FALSE, stop |-> FALSE, vs |-> <<>>]
    ELSE IF ~RegExpCompiles(cfg.title_regex)
    THEN [threw |-> FALSE, stop |-> FALSE, vs |-> <<TitleInvalidViolation(cfg)>>]
    ELSE [threw |-> FALSE, stop |-> FALSE,
          vs |-> IF ~RegExpTest(cfg.title_regex, TitleOrEmpty(title))
                 THEN <<PrTitleViolation(cfg, title)>> ELSE <<>>]

\* faulty variant: the test of the title is not negated
TitleRule_inverted(cfg, title) ==
    IF ~Truthy(cfg.title_regex) THEN [threw |-> FALSE, stop |-> FALSE, vs |-> <<>>]
    ELSE IF ~RegExpCompiles(cfg.title_regex)
    THEN [threw |-> FALSE, stop |-> TRUE, vs |-> <<TitleInvalidViolation(cfg)>>]
    ELSE [threw |-> FALSE, stop |-> FALSE,
          vs |-> IF RegExpTest(cfg.title_regex, TitleOrEmpty(title))
                 THEN <<PrTitleViolation(cfg, title)>> ELSE <<>>]

\* the title rule; stop is the early return of the catch block, threw an
\* exception that leaves compileViolations
TitleRule(cfg, title) ==
    IF ~Truthy(cfg.title_regex) THEN [threw |-> FALSE, stop |-> FALSE, vs |-> <<>>]
    ELSE IF ~RegExpCompiles(cfg.title_regex)
    THEN [threw |-> FALSE, stop |-> TRUE, vs |-> <<TitleInvalidViolation(cfg)>>]
    ELSE [threw |-> FALSE, stop |-> FALSE,
          vs |-> IF ~RegExpTest(cfg.title_regex, TitleOrEmpty(title))
                 THEN <<PrTitleViolation(cfg, title)>> ELSE <<>>]

fileExists(ex, relPath) == relPath \in ex

RequiredFilesRule(cfg, ex) ==
    LET missing == SelectSeq(cfg.required_files, LAMBDA f : ~fileExists(ex, f))
    IN IF cfg.required_files # <<>> /\ missing # <<>>
       THEN <<Violation("required_files", "error", "Missing required file(s)",
                        missing, "Add the missing files")>>
       ELSE <<>>

\* faulty variant: the reason is not looked at
PackageLockMissingViolation_same(reason) ==
    Violation("package_lock_missing", "warn",
              "package-lock.json was not found", <<>>, "Commit a package-lock.json")

PackageLockMissingViolation(reason) ==
    Violation("package_lock_missing", "warn",
              IF reason = "missing" THEN "package-lock.json was not found"
              ELSE "package-lock.json could not be parsed",
              <<>>,
              IF reason = "missing" THEN "Commit a package-lock.json"
              ELSE "Fix package-lock.json")

DenylistInvalidViolation(rawRule) ==
    Violation("dependency_denylist_invalid", "error", "Invalid semver range",
              <<rawRule>>, "Use a valid semver range")

\* the loop that pre-parses the rules: the violations it pushes and parsedRules
RECURSIVE ParseRules(_)
ParseRules(denyDeps) ==
    IF denyDeps = <<>> THEN [vs |-> <<>>, parsedRules |-> <<>>]
    ELSE LET rawRule == Head(denyDeps)
             p == parseDenyRule(rawRule)
             rest == ParseRules(Tail(denyDeps))
         IN IF ~Truthy(p.name) THEN rest
            ELSE IF Truthy(p.range) /\ ~semverValidRange(p.range)
            THEN [vs |-> <<DenylistInvalidViolation(rawRule)>> \o rest.vs,
                  parsedRules |-> rest.parsedRules]
            ELSE [vs |-> rest.vs,
                  parsedRules |-> <<[rawRule |-> rawRule, name |-> p.name, range |-> p.range]>>
                                  \o rest.parsedRules]

MatchesOpen == <<" ", "(", "m", "a", "t", "c", "h", "e", "s", " ">>

\* what one (rule, dep) pair pushes to banned
\* faulty variant: the names are not compared
BannedEntry_anyname(rule, dep) ==
    IF ~Truthy(rule.range) THEN <<dep.name \o <<"@">> \o dep.version>>
    ELSE LET v == semverCoerce(dep.version)
         IN IF v = <<>> THEN <<>>
            ELSE IF semverSatisfies(v, rule.range)
            THEN <<dep.name \o <<"@">> \o dep.version \o MatchesOpen \o rule.rawRule \o <<")">>>>
            ELSE <<>>

BannedEntry(rule, dep) ==
    IF dep.name # rule.name THEN <<>>
    ELSE IF ~Truthy(rule.range) THEN <<dep.name \o <<"@">> \o dep.version>>
    ELSE LET v == semverCoerce(dep.version)
         IN IF v = <<>> THEN <<>>
            ELSE IF semverSatisfies(v, rule.range)
            THEN <<dep.name \o <<"@">> \o dep.version \o MatchesOpen \o rule.rawRule \o <<")">>>>
            ELSE <<>>

RECURSIVE BannedForRule(_, _)
BannedForRule(rule, deps) ==
    IF deps = <<>> THEN <<>>
    ELSE BannedEntry(rule, Head(deps)) \o BannedForRule(rule, Tail(deps))

RECURSIVE Banned(_, _)
Banned(parsedRules, deps) ==
    IF parsedRules = <<>> THEN <<>>
    ELSE BannedForRule(Head(parsedRules), deps) \o Banned(Tail(parsedRules), deps)

\* faulty variant: rules are enforced although a range is invalid
HasInvalid_never(vs) == FALSE

HasInvalid(vs) == \E i \in 1..Len(vs) : vs[i].ruleId = "dependency_denylist_invalid"

\* the dependency denylist rule: what it appends to the violations so far
DenylistRule(cfg, lf, sofar) ==
    IF cfg.deny = <<>> THEN <<>>
    ELSE LET r == readPackageLock(lf)
         IN IF r.lock = JsonNull THEN <<PackageLockMissingViolation(r.reason)>>
            ELSE LET deps == collectDepsFromLock(r.lock)
                     pr == ParseRules(cfg.deny)
                     banned == Banned(pr.parsedRules, deps)
                 IN pr.vs \o
                    (IF ~HasInvalid(sofar \o pr.vs) /\ banned # <<>>
                     THEN <<Violation("dependency_denylist", "error",
                                      "Disallowed dependencies found", banned,
                                      "Remove or upgrade the dependency")>>
                     ELSE <<>>)

\* [threw, violations]: the value returned, or an exception
compileViolations(cfg, title, ex, lf) ==
    IF cfg = NoConfig THEN [threw |-> FALSE, violations |-> <<ConfigMissingViolation>>]
    ELSE LET t == TitleRule(cfg, title)
         IN IF t.threw THEN [threw |-> TRUE, violations |-> <<>>]
            ELSE IF t.stop THEN [threw |-> FALSE, violations |-> t.vs]
            ELSE LET files == t.vs \o RequiredFilesRule(cfg, ex)
                     all == files \o DenylistRule(cfg, lf, files)
                 IN [threw |-> FALSE, violations |-> applySeverityOverrides(cfg, all)]

\* faulty variant: the status and the failing flag follow hasErrors alone
Verdict_hasErrors(cfg, vs) ==
    LET hasErrors == \E i \in 1..Len(vs) : vs[i].severity = "error"
        hasWarns == \E i \in 1..Len(vs) : vs[i].severity = "warn"
    IN [failing |-> hasErrors,
        status |-> IF hasErrors THEN "fail" ELSE IF hasWarns THEN "warn" ELSE "pass"]

\* lines 341-346 of run: [failing, status]
Verdict(cfg, vs) ==
    LET hasErrors == \E i \in 1..Len(vs) : vs[i].severity = "error"
        hasWarns == \E i \in 1..Len(vs) : vs[i].severity = "warn"
        fl == IF cfg # NoConfig THEN shouldFail(cfg, vs) ELSE FALSE
    IN [failing |-> fl,
        status |-> IF fl THEN "fail" ELSE IF hasErrors \/ hasWarns THEN "warn" ELSE "pass"]

(***************************************************************************)
(* Inputs of the evaluation.                                               *)
(***************************************************************************)
\* all sequences over S of length at most n
RECURSIVE SeqsUpTo(_, _)
SeqsUpTo(S, n) ==
    IF n = 0 THEN {<<>>}
    ELSE LET shorter == SeqsUpTo(S, n - 1)
         IN shorter \cup {Append(q, x) : q \in shorter, x \in S}

\* title patterns: unset, "", "(" (does not compile), "^a", "b"
TitlePatterns == {NULL, <<>>, <<"(">>, <<"^", "a">>, <<"b">>}

\* titles: unset, or a text over a, b
Titles == {NULL} \cup SeqsUpTo({"a", "b"}, MaxTitleLen)

RequiredFiles == {<<>>, <<"LICENSE">>, <<"LICENSE", "SECURITY.md">>}

FileTrees == {{}, {"LICENSE"}, {"LICENSE", "SECURITY.md"}}

\* deny rules: a bare name, a ranged rule, a rule with an invalid range, a
\* rule with a blank range, a scoped name with a two-comparator range, and
\* a blank rule
DenyRules == {<<"a">>, <<"a", "@", "<", "1", ".", "2", ".", "1">>, <<"a", "@", "n">>, <<"b", "@", " ">>, <<"@", "s", "/", "c", "@", ">", "=", "1", " ", "<", "2">>, <<" ">>}

DenyLists == SeqsUpTo(DenyRules, MaxDeny)

FlatEntry(path, name, version) == [path |-> path, name |-> name, version |-> version]

TreeNode(name, version, dependencies) ==
    [name |-> name, version |-> version, dependencies |-> dependencies]

\* flat form: the root project, a 1.2.0, b 2.0.0, @s/c 1.5.0 under an
\* explicit name, and an entry without a version
LockFlat ==
    [packages |-> <<FlatEntry(<<>>, <<"r", "o", "o", "t">>, <<"1", ".", "0", ".", "0">>),
                    FlatEntry(<<"n", "o", "d", "e", "_", "m", "o", "d", "u", "l", "e", "s", "/", "a">>, <<>>, <<"1", ".", "2", ".", "0">>),
                    FlatEntry(<<"n", "o", "d", "e", "_", "m", "o", "d", "u", "l", "e", "s", "/", "b">>, <<>>, <<"2", ".", "0", ".", "0">>),
                    FlatEntry(<<"n", "o", "d", "e", "_", "m", "o", "d", "u", "l", "e", "s", "/", "x">>, <<"@", "s", "/", "c">>, <<"1", ".", "5", ".", "0">>),
                    FlatEntry(<<"n", "o", "d", "e", "_", "m", "o", "d", "u", "l", "e", "s", "/", "d">>, <<>>, <<>>)>>,
     dependencies |-> <<>>]

\* flat form: a 1.2.1 and @s/c 2.0.0
LockFlatNewer ==
    [packages |-> <<FlatEntry(<<"n", "o", "d", "e", "_", "m", "o", "d", "u", "l", "e", "s", "/", "a">>, <<>>, <<"1", ".", "2", ".", "1">>),
                    FlatEntry(<<"n", "o", "d", "e", "_", "m", "o", "d", "u", "l", "e", "s", "/", "@", "s", "/", "c">>, <<>>, <<"2", ".", "0", ".", "0">>)>>,
     dependencies |-> <<>>]

\* tree form: a at a version that does not coerce, with b 2.0.0 and a second
\* a 1.2.0 nested below it, and a 1.2.0 once more at the top
LockTree ==
    [packages |-> <<>>,
     dependencies |-> <<TreeNode(<<"a">>, <<"n">>, <<TreeNode(<<"b">>, <<"2", ".", "0", ".", "0">>, <<>>),
                                                TreeNode(<<"a">>, <<"1", ".", "2", ".", "0">>, <<>>)>>),
                        TreeNode(<<"a">>, <<"1", ".", "2", ".", "0">>, <<>>)>>]

LockEmpty == [packages |-> <<>>, dependencies |-> <<>>]

ParsedLocks == {LockFlat, LockFlatNewer, LockTree, LockEmpty}

LockFiles ==
    {[state |-> "missing"], [state |-> "invalid_json"], [state |-> "parsed", lock |-> JsonNull]}
    \cup {[state |-> "parsed", lock |-> l] : l \in ParsedLocks}

\* severity_overrides with no entry, or with one entry k: v
OverrideMaps(keys, values) ==
    {<<>>} \cup {[r \in {k} |-> v] : k \in keys, v \in values}

SeverityValues == {"warn", "warning", "error", "bogus", ""}

FailOnValues == {UNSET, "", "warn", "warning", "error", "bogus"}

Config(pattern, required, deny, overrides, failOn) ==
    [title_regex |-> pattern, required_files |-> required, deny |-> deny,
     severity_overrides |-> overrides, fail_on |-> failOn]

\* the title rule in depth
TitleInputs ==
    /\ config \in {Config(p, <<>>, <<>>, o, f) :
                     p \in TitlePatterns,
                     o \in OverrideMaps({"title_regex_invalid", "pr_title_regex"}, SeverityValues),
                     f \in {UNSET, "warn"}}
    /\ prTitle \in Titles
    /\ existing = {}
    /\ lockFile = [state |-> "missing"]

\* the dependency denylist in depth
DenylistInputs ==
    /\ config \in {Config(p, <<>>, d, o, f) :
                     p \in {NULL, <<"(">>},
                     d \in DenyLists,
                     o \in OverrideMaps({"package_lock_missing", "dependency_denylist_invalid",
                                         "dependency_denylist"}, {"warn", "bogus"}),
                     f \in {UNSET, "warn"}}
    /\ prTitle = <<"a">>
    /\ existing = {}
    /\ lockFile \in LockFiles

\* every rule together, and no configuration at all
CrossInputs ==
    /\ config \in {NoConfig} \cup
                  {Config(p, r, d, o, f) :
                     p \in {NULL, <<"(">>, <<"^", "a">>},
                     r \in RequiredFiles,
                     d \in {<<>>, <<<<"a">>>>, <<<<"a", "@", "n">>, <<"a">>>>},
                     o \in OverrideMaps(RuleIds, {"warn", ""}),
                     f \in FailOnValues}
    /\ prTitle \in {<<"a">>, <<"b">>}
    /\ existing \in FileTrees
    /\ lockFile \in {[state |-> "missing"], [state |-> "parsed", lock |-> LockFlat]}

Init ==
    /\ pc = "start"
    /\ arg = <<>>
    /\ result = <<>>
    /\ violations = <<>>
    /\ threw = FALSE
    /\ failing = FALSE
    /\ status = "none"
    /\ (TitleInputs \/ DenylistInputs \/ CrossInputs)

\* const violations = compileViolations({ config, prTitle })
Compile ==
    /\ pc = "start"
    /\ LET r == compileViolations(config, prTitle, existing, lockFile)
       IN /\ violations' = r.violations
          /\ threw' = r.threw
          /\ pc' = IF r.threw THEN "threw" ELSE "compiled"
    /\ UNCHANGED <<config, prTitle, existing, lockFile, arg, result, failing, status>>

\* hasErrors, hasWarns, failing and status in run
RunVerdict ==
    /\ pc = "compiled"
    /\ LET v == Verdict(config, violations)
       IN /\ failing' = v.failing
          /\ status' = v.status
    /\ pc' = "done"
    /\ UNCHANGED <<config, prTitle, existing, lockFile, arg, result, violations, threw>>

Next == Compile \/ RunVerdict

Spec == Init /\ [][Next]_vars

(***************************************************************************)
(* One whole run: the checks before the evaluation, the evaluation, the    *)
(* comment posted on the pull request and the failure signal.  The token,  *)
(* the event, the configuration file and the hosting API are the           *)
(* environment of run: each of their outcomes can happen.                  *)
(***************************************************************************)
InitRun ==
    /\ pc = "run"
    /\ arg = <<>>
    /\ result = <<>>
    /\ violations = <<>>
    /\ threw = FALSE
    /\ failing = FALSE
    /\ status = "none"
    /\ (TitleInputs \/ CrossInputs)

\* the token and event checks, safeLoadConfig and the title read by run
Preflight ==
    /\ pc = "run"
    /\ \E outcome \in {"token_missing", "not_pull_request", "config_unreadable", "ready"} :
          /\ threw' = (outcome \in {"token_missing", "config_unreadable"})
          /\ pc' = CASE outcome = "ready" -> "start"
                      [] outcome = "not_pull_request" -> "skipped"
                      [] OTHER -> "caught"
    /\ prTitle' = TitleOrEmpty(prTitle)
    /\ UNCHANGED <<config, existing, lockFile, arg, result, violations, failing, status>>

\* renderMarkdown and upsertComment: the hosting API answers or rejects
Report ==
    /\ pc = "done"
    /\ \E rejected \in BOOLEAN :
          /\ threw' = rejected
          /\ pc' = IF rejected THEN "caught" ELSE "posted"
    /\ UNCHANGED <<config, prTitle, existing, lockFile, arg, result, violations, failing, status>>

\* if (failing) core.setFailed(...)
Signal ==
    /\ pc = "posted"
    /\ pc' = IF failing THEN "setFailed" ELSE "returned"
    /\ UNCHANGED <<config, prTitle, existing, lockFile, arg, result, violations, threw,
                   failing, status>>

\* catch (err) { core.setFailed(...) }
Catch ==
    /\ pc = "caught"
    /\ pc' = "setFailed"
    /\ UNCHANGED <<config, prTitle, existing, lockFile, arg, result, violations, threw,
                   failing, status>>

NextRun == Preflight \/ Compile \/ RunVerdict \/ Report \/ Signal \/ Catch

SpecRun == InitRun /\ [][NextRun]_vars

(***************************************************************************)
(* collectDepsFromLock on its own: one set of installed packages written   *)
(* as a flat manifest (lock.packages keyed by installation path) and as a  *)
(* tree manifest (lock.dependencies, nested).                              *)
(*                                                                         *)
(* An installation is a function from installation paths to versions; an   *)
(* installation path is the list of package names from the top level down  *)
(* to the package, and a nested package is installed below its parent.     *)
(***************************************************************************)
PackageNames == {<<"a">>, <<"b">>}

PackageVersions == {<<"1", ".", "0", ".", "0">>, <<"2", ".", "0", ".", "0">>}

InstallPaths == SeqsUpTo(PackageNames, MaxDepth) \ {<<>>}

Parent(path) == SubSeq(path, 1, Len(path) - 1)

Installations ==
    UNION {[paths -> PackageVersions] :
             paths \in {P \in SUBSET InstallPaths :
                          /\ Cardinality(P) <= MaxPackages
                          /\ \A q \in P : Len(q) > 1 => Parent(q) \in P}}

\* the members of a set in some order, as the keys of a JSON object come
RECURSIVE SeqOf(_)
SeqOf(S) ==
    IF S = {} THEN <<>>
    ELSE LET x == CHOOSE y \in S : TRUE IN <<x>> \o SeqOf(S \ {x})

\* the key of lock.packages for an installation path:
\* node_modules/a, node_modules/a/node_modules/b
RECURSIVE PathKey(_)
PathKey(path) ==
    IF Len(path) = 1 THEN NodeModulesPrefix \o path[1]
    ELSE PathKey(Parent(path)) \o <<"/">> \o NodeModulesPrefix \o path[Len(path)]

\* lock.packages of an installation: an entry per path, with no name field
FlatOf(inst) ==
    LET ks == SeqOf(DOMAIN inst)
    IN [i \in 1..Len(ks) |-> FlatEntry(PathKey(ks[i]), <<>>, inst[ks[i]])]

\* lock.dependencies of an installation, below the given path
RECURSIVE TreeOf(_, _)
TreeOf(inst, path) ==
    LET ks == SeqOf({q \in DOMAIN inst : Len(q) = Len(path) + 1 /\ Parent(q) = path})
    IN [i \in 1..Len(ks) |->
          TreeNode(ks[i][Len(ks[i])], inst[ks[i]], TreeOf(inst, ks[i]))]

\* a tree unrelated to the installation, for a manifest that carries both forms
OtherTrees == {<<>>, <<TreeNode(<<"c">>, <<"3", ".", "0", ".", "0">>, <<>>)>>}

InitLock ==
    /\ pc = "lock"
    /\ \E inst \in Installations, other \in OtherTrees :
          arg = [installation |-> inst,
                 flat |-> [packages |-> FlatOf(inst), dependencies |-> <<>>],
                 tree |-> [packages |-> <<>>, dependencies |-> TreeOf(inst, <<>>)],
                 both |-> [packages |-> FlatOf(inst), dependencies |-> other]]
    /\ result = <<>>
    /\ config = NoConfig
    /\ prTitle = NULL
    /\ existing = {}
    /\ lockFile = [state |-> "missing"]
    /\ violations = <<>>
    /\ threw = FALSE
    /\ failing = FALSE
    /\ status = "none"

\* collectDepsFromLock(lock) for each form of the manifest
CollectDeps ==
    /\ pc = "lock"
    /\ result' = [flat |-> collectDepsFromLock(arg.flat),
                  tree |-> collectDepsFromLock(arg.tree),
                  both |-> collectDepsFromLock(arg.both)]
    /\ pc' = "collected"
    /\ UNCHANGED <<config, prTitle, existing, lockFile, arg, violations, threw, failing, status>>

NextLock == CollectDeps

SpecLock == InitLock /\ [][NextLock]_vars

(***************************************************************************)
(* parseDenyRule on its own: every rule text over a small alphabet, and    *)
(* sample rules with scoped and unscoped names.                            *)
(***************************************************************************)
RuleChars == {"@", " ", "a", "<"}

RuleExamples ==
    {<<"@", "s", "c", "o", "p", "e", "/", "p", "k", "g", "@", ">", "=", "1", " ", "<", "2">>, <<"@", "s", "c", "o", "p", "e", "/", "p", "k", "g">>, <<"l", "e", "f", "t", "-", "p", "a", "d">>, <<"l", "o", "d", "a", "s", "h", "@">>, <<"l", "o", "d", "a", "s", "h", "@", "<", "4", ".", "1", "7", ".", "2", "1">>}

InitRule ==
    /\ pc = "rule"
    /\ arg \in SeqsUpTo(RuleChars, MaxRuleLen) \cup RuleExamples
    /\ result = <<>>
    /\ config = NoConfig
    /\ prTitle = NULL
    /\ existing = {}
    /\ lockFile = [state |-> "missing"]
    /\ violations = <<>>
    /\ threw = FALSE
    /\ failing = FALSE
    /\ status = "none"

\* parseDenyRule(rule)
ParseRule ==
    /\ pc = "rule"
    /\ result' = parseDenyRule(arg)
    /\ pc' = "parsed"
    /\ UNCHANGED <<config, prTitle, existing, lockFile, arg, violations, threw, failing, status>>

NextRule == ParseRule

SpecRule == InitRule /\ [][NextRule]_vars

(***************************************************************************)
(* The SeverityModel functions on their own: applySeverityOverrides and    *)
(* shouldFail applied to any violation list.                               *)
(***************************************************************************)
SampleViolations ==
    {Violation(id, sev, "message of " \o id, <<>>, "fix of " \o id) :
        id \in {"required_files", "pr_title_regex", "dependency_denylist"},
        sev \in {"warn", "error"}}

\* every severity_overrides over the given keys
OverrideFunctions(keys, values) ==
    UNION {[ks -> values] : ks \in SUBSET keys}

InitSeverity ==
    /\ pc = "sev"
    /\ arg \in SeqsUpTo(SampleViolations, MaxViolations)
    /\ config \in {NoConfig}
                  \cup {Config(NULL, <<>>, <<>>, o, UNSET) :
                          o \in OverrideFunctions({"required_files", "pr_title_regex",
                                                   "package_lock_missing"}, SeverityValues)}
                  \cup {Config(NULL, <<>>, <<>>, <<>>, f) : f \in FailOnValues}
    /\ prTitle = NULL
    /\ existing = {}
    /\ lockFile = [state |-> "missing"]
    /\ result = <<>>
    /\ violations = <<>>
    /\ threw = FALSE
    /\ failing = FALSE
    /\ status = "none"

ApplyOverrides ==
    /\ pc = "sev"
    /\ violations' = applySeverityOverrides(config, arg)
    /\ pc' = "overridden"
    /\ UNCHANGED <<config, prTitle, existing, lockFile, arg, result, threw, failing, status>>

ShouldFail ==
    /\ pc = "sev"
    /\ failing' = shouldFail(config, arg)
    /\ pc' = "judged"
    /\ UNCHANGED <<config, prTitle, existing, lockFile, arg, result, violations, threw, status>>

NextSeverity == ApplyOverrides \/ ShouldFail

SpecSeverity == InitSeverity /\ [][NextSeverity]_vars

(***************************************************************************)
(* Properties.                                                             *)
(***************************************************************************)
Compiled == pc \in {"compiled", "done"}

HasConfig == config # NoConfig

Count(vs, ruleId) == Cardinality({i \in 1..Len(vs) : vs[i].ruleId = ruleId})

\* the entry of the override map for a ruleId is set
HasOverride(ruleId) == ruleId \in DOMAIN config.severity_overrides

\* normalize, as the specification states it
Normalized(raw) == IF raw \in {"warn", "warning"} THEN "warn" ELSE "error"

PatternConfigured == HasConfig /\ config.title_regex # NULL /\ config.title_regex # <<>>

\* the configured title pattern is unset, or it compiles
PatternUsable == ~PatternConfigured \/ RegExpCompiles(config.title_regex)

\* C1: one evaluation (compileViolations, then the verdict of run) never
\* throws: it is at its start, has returned its violations, or has reached
\* its verdict; it returns only violations of severity warn or error, and
\* ends with a status that is one of pass, warn, fail.
C1_EvaluationTotal ==
    /\ ~threw /\ pc \in {"start", "compiled", "done"}
    /\ Compiled => \A i \in 1..Len(violations) : violations[i].severity \in {"warn", "error"}
    /\ pc = "done" => status \in {"pass", "warn", "fail"}

C1_Witness ==
    /\ pc = "done" /\ status = "fail" /\ HasConfig
    /\ lockFile.state = "invalid_json" /\ config.deny # <<>>
    /\ config.title_regex = <<"(">>

\* C2: with no configuration, compileViolations returns exactly one
\* violation, config_missing with severity warn, whatever the title, the file
\* tree and the manifest are.
C2_ConfigMissing ==
    (Compiled /\ ~HasConfig) =>
        /\ Len(violations) = 1
        /\ violations[1].ruleId = "config_missing"
        /\ violations[1].severity = "warn"

C2_Witness ==
    /\ pc = "compiled" /\ ~HasConfig
    /\ lockFile.state = "parsed" /\ existing = {} /\ prTitle = <<"b">>
    /\ Len(violations) = 1

TitleMatches ==
    RegExpTest(config.title_regex, IF prTitle = NULL THEN <<>> ELSE prTitle)

\* C4: with a title pattern that compiles, the list holds exactly one
\* pr_title_regex violation (of severity error when no override is
\* configured for it) if the title, unset read as empty, does not match, and
\* none if it matches; title "ba" against ^a, nothing else configured, gives
\* exactly that one violation.
C4_TitleRegex ==
    (Compiled /\ PatternConfigured /\ RegExpCompiles(config.title_regex)) =>
        /\ TitleMatches => Count(violations, "pr_title_regex") = 0
        /\ ~TitleMatches =>
             /\ Count(violations, "pr_title_regex") = 1
             /\ ~HasOverride("pr_title_regex") =>
                  \A i \in 1..Len(violations) :
                     violations[i].ruleId = "pr_title_regex" => violations[i].severity = "error"
        /\ (/\ config.title_regex = <<"^", "a">> /\ prTitle = <<"b", "a">>
            /\ config.required_files = <<>> /\ config.deny = <<>>
            /\ config.severity_overrides = <<>>) =>
             /\ Len(violations) = 1
             /\ violations[1].ruleId = "pr_title_regex"
             /\ violations[1].severity = "error"
        /\ (config.title_regex = <<"^", "a">> /\ prTitle = <<"a", "b">>) =>
             Count(violations, "pr_title_regex") = 0

C4_Witness ==
    /\ pc = "compiled" /\ HasConfig
    /\ config.title_regex = <<"b">> /\ prTitle = NULL
    /\ Count(violations, "pr_title_regex") = 1

\* the manifest was read: it exists and parsed to a value that is not null
LockReadable == lockFile.state = "parsed" /\ lockFile.lock # JsonNull

\* a deny rule with a non-empty range that is not a valid semver range
InvalidRule(rawRule) ==
    LET p == parseDenyRule(rawRule)
    IN p.range # NULL /\ p.range # <<>> /\ ~semverValidRange(p.range)

\* the violation list names the raw rule in a dependency_denylist_invalid
\* violation of the given severity
ReportsInvalid(rawRule, severities) ==
    \E i \in 1..Len(violations) :
        /\ violations[i].ruleId = "dependency_denylist_invalid"
        /\ violations[i].message.args = <<rawRule>>
        /\ violations[i].severity \in severities

\* C5, as claimed: whenever the denylist holds a rule with an invalid range,
\* the evaluation reports it in a dependency_denylist_invalid violation of
\* severity error and produces no dependency_denylist violation.
C5_AsClaimed ==
    (Compiled /\ HasConfig) =>
        \A r \in 1..Len(config.deny) :
            InvalidRule(config.deny[r]) =>
                /\ ReportsInvalid(config.deny[r], {"error"})
                /\ Count(violations, "dependency_denylist") = 0

\* C5, amended: when the title pattern is unset or compiles and the manifest
\* was read, every deny rule with an invalid range is reported in a
\* dependency_denylist_invalid violation naming its raw text (of severity
\* error when no override is configured for that ruleId) and no
\* dependency_denylist violation is produced, even if valid rules match.
C5_InvalidRange ==
    (Compiled /\ HasConfig /\ PatternUsable /\ LockReadable) =>
        \A r \in 1..Len(config.deny) :
            InvalidRule(config.deny[r]) =>
                /\ ReportsInvalid(config.deny[r],
                                  IF HasOverride("dependency_denylist_invalid")
                                  THEN {"warn", "error"} ELSE {"error"})
                /\ Count(violations, "dependency_denylist") = 0

C5_Witness ==
    /\ pc = "compiled" /\ HasConfig /\ config.title_regex = NULL
    /\ config.deny = <<<<"a">>, <<"a", "@", "n">>>>
    /\ lockFile = [state |-> "parsed", lock |-> LockFlat]
    /\ Count(violations, "dependency_denylist_invalid") = 1
    /\ Count(violations, "dependency_denylist") = 0

\* the dependency records of the manifest that was read
Deps == collectDepsFromLock(lockFile.lock)

AllRulesValid == \A r \in 1..Len(config.deny) : ~InvalidRule(config.deny[r])

RuleRanged(r) == parseDenyRule(config.deny[r]).range # NULL

\* rule r of the denylist and record d of the manifest match: equal names,
\* and no range or a coerced version that satisfies the range
PairMatches(r, d) ==
    LET rule == parseDenyRule(config.deny[r])
        v == semverCoerce(Deps[d].version)
    IN /\ Deps[d].name = rule.name
       /\ \/ ~RuleRanged(r)
          \/ v # <<>> /\ semverSatisfies(v, rule.range)

\* as claimed: a record whose version does not coerce never matches
PairMatchesAsClaimed(r, d) ==
    PairMatches(r, d) /\ semverCoerce(Deps[d].version) # <<>>

MatchingPairs ==
    {rd \in (1..Len(config.deny)) \X (1..Len(Deps)) : PairMatches(rd[1], rd[2])}

MatchingPairsAsClaimed ==
    {rd \in (1..Len(config.deny)) \X (1..Len(Deps)) : PairMatchesAsClaimed(rd[1], rd[2])}

\* how the message names a pair: name@version, followed by the raw rule
\* when the rule has a range
PairText(r, d) ==
    Deps[d].name \o <<"@">> \o Deps[d].version \o
    (IF RuleRanged(r) THEN MatchesOpen \o config.deny[r] \o <<")">> ELSE <<>>)

\* the one dependency_denylist violation lists exactly the given pairs
ListsPairs(pairs, severities) ==
    /\ Count(violations, "dependency_denylist") = 1
    /\ \A i \in 1..Len(violations) :
          violations[i].ruleId = "dependency_denylist" =>
              /\ violations[i].severity \in severities
              /\ Len(violations[i].message.args) = Cardinality(pairs)
              /\ \A rd \in pairs :
                    \E k \in 1..Len(violations[i].message.args) :
                        violations[i].message.args[k] = PairText(rd[1], rd[2])

\* C6, as claimed: with the manifest read and every deny rule valid, one
\* dependency_denylist violation of severity error lists every matching pair
\* if there is one, and there is none otherwise; a record whose version does
\* not coerce never matches.
C6_AsClaimed ==
    (Compiled /\ HasConfig /\ LockReadable /\ AllRulesValid) =>
        IF MatchingPairsAsClaimed # {}
        THEN ListsPairs(MatchingPairsAsClaimed, {"error"})
        ELSE Count(violations, "dependency_denylist") = 0

\* C6, amended: when the title pattern is unset or compiles, the manifest
\* was read and every deny rule is valid, there is exactly one
\* dependency_denylist violation (of severity error when no override is
\* configured for it) listing every matching pair if a pair matches, and
\* none otherwise.  A pair matches when the names are equal and either the
\* rule has no range, or the version coerces and satisfies the range: a
\* version that does not coerce matches no ranged rule.  a@<1.2.1 matches
\* a 1.2.0 and does not match a 1.2.1.
C6_Denylist ==
    (Compiled /\ HasConfig /\ PatternUsable /\ LockReadable /\ AllRulesValid) =>
        /\ IF MatchingPairs # {}
           THEN ListsPairs(MatchingPairs,
                           IF HasOverride("dependency_denylist")
                           THEN {"warn", "error"} ELSE {"error"})
           ELSE Count(violations, "dependency_denylist") = 0
        /\ (config.deny = <<<<"a", "@", "<", "1", ".", "2", ".", "1">>>> /\ lockFile.lock = LockFlat) =>
              \E i \in 1..Len(violations) :
                  /\ violations[i].ruleId = "dependency_denylist"
                  /\ violations[i].message.args = <<<<"a", "@", "1", ".", "2", ".", "0", " ", "(", "m", "a", "t", "c", "h", "e", "s", " ", "a", "@", "<", "1", ".", "2", ".", "1", ")">>>>
        /\ (config.deny = <<<<"a", "@", "<", "1", ".", "2", ".", "1">>>> /\ lockFile.lock = LockFlatNewer) =>
              Count(violations, "dependency_denylist") = 0
        /\ (config.deny = <<<<"a", "@", "<", "1", ".", "2", ".", "1">>>> /\ lockFile.lock = LockTree) =>
              \E i \in 1..Len(violations) :
                  /\ violations[i].ruleId = "dependency_denylist"
                  /\ violations[i].message.args = <<<<"a", "@", "1", ".", "2", ".", "0", " ", "(", "m", "a", "t", "c", "h", "e", "s", " ", "a", "@", "<", "1", ".", "2", ".", "1", ")">>>>

C6_Witness ==
    /\ pc = "compiled" /\ HasConfig /\ config.title_regex = NULL
    /\ config.deny = <<<<"a", "@", "<", "1", ".", "2", ".", "1">>, <<"b", "@", " ">>>>
    /\ lockFile = [state |-> "parsed", lock |-> LockFlat]
    /\ Cardinality(MatchingPairs) = 2
    /\ Count(violations, "dependency_denylist") = 1

\* the package_lock_missing violations of the list carry this template
LockMissingSays(template) ==
    \A i \in 1..Len(violations) :
        violations[i].ruleId = "package_lock_missing" =>
            /\ violations[i].message.template = template
            /\ ~HasOverride("package_lock_missing") => violations[i].severity = "warn"
            /\ (HasOverride("package_lock_missing")
                  /\ config.severity_overrides["package_lock_missing"] # "") =>
                 violations[i].severity =
                     Normalized(config.severity_overrides["package_lock_missing"])

LockMissingRule ==
    /\ Count(violations, "package_lock_missing") = 1
    /\ Count(violations, "dependency_denylist") = 0
    /\ lockFile.state = "missing" => LockMissingSays("package-lock.json was not found")
    /\ lockFile.state = "invalid_json" => LockMissingSays("package-lock.json could not be parsed")

\* C7, as claimed: with a deny rule configured and the manifest absent or
\* unparseable there is exactly one package_lock_missing violation, warn
\* unless overridden, saying which of the two it is, and no
\* dependency_denylist violation; with no deny rule there is no
\* package_lock_missing violation.
C7_AsClaimed ==
    (Compiled /\ HasConfig) =>
        /\ (config.deny # <<>> /\ lockFile.state \in {"missing", "invalid_json"}) =>
              LockMissingRule
        /\ config.deny = <<>> => Count(violations, "package_lock_missing") = 0

\* C7, amended: the same, when the title pattern is unset or compiles.
C7_LockMissing ==
    (Compiled /\ HasConfig) =>
        /\ (/\ PatternUsable
            /\ config.deny # <<>>
            /\ lockFile.state \in {"missing", "invalid_json"}) => LockMissingRule
        /\ config.deny = <<>> => Count(violations, "package_lock_missing") = 0

C7_Witness ==
    /\ pc = "compiled" /\ HasConfig /\ config.title_regex = NULL
    /\ config.deny = <<<<"a", "@", "n">>, <<"a">>>> /\ lockFile.state = "invalid_json"
    /\ HasOverride("package_lock_missing")
    /\ Count(violations, "package_lock_missing") = 1

\* C8: in the list returned with a configuration present, every violation
\* whose ruleId has an entry in the override map has the normalized value of
\* that entry as its severity.
C8_OverridesUniform ==
    (Compiled /\ HasConfig) =>
        \A i \in 1..Len(violations) :
            HasOverride(violations[i].ruleId) =>
                violations[i].severity =
                    Normalized(config.severity_overrides[violations[i].ruleId])

\* C9: applySeverityOverrides returns a list of the same length and order
\* in which every violation keeps its ruleId, message and howToFix, and
\* keeps its severity when its ruleId has no entry in the override map;
\* {required_files: "warn"} makes every required_files violation warn and
\* leaves the others as they were.
C9_OverridesFrame ==
    pc = "overridden" =>
        /\ Len(violations) = Len(arg)
        /\ \A i \in 1..Len(arg) :
              /\ violations[i].ruleId = arg[i].ruleId
              /\ violations[i].message = arg[i].message
              /\ violations[i].howToFix = arg[i].howToFix
              /\ (~HasConfig \/ ~HasOverride(arg[i].ruleId)) =>
                    violations[i].severity = arg[i].severity
              /\ (HasConfig /\ config.severity_overrides = [k \in {"required_files"} |-> "warn"]) =>
                    violations[i].severity =
                        IF arg[i].ruleId = "required_files" THEN "warn" ELSE arg[i].severity

C9_Witness ==
    /\ pc = "overridden" /\ HasConfig
    /\ config.severity_overrides = [k \in {"required_files"} |-> "warn"]
    /\ Len(arg) = 2
    /\ arg[1].ruleId = "required_files" /\ arg[1].severity = "error"
    /\ arg[2].ruleId = "pr_title_regex" /\ arg[2].severity = "error"
    /\ violations[1].severity = "warn" /\ violations[2].severity = "error"

\* rank, as the specification states it
Rank(severity) == IF severity = "warn" THEN 1 ELSE 2

\* the fail threshold: error when unset, otherwise the normalized value
Threshold ==
    IF ~HasConfig \/ config.fail_on \in {UNSET, ""} THEN "error" ELSE Normalized(config.fail_on)

\* C10: shouldFail is true exactly when some violation has a rank at or
\* above the rank of the threshold; a list of warn violations fails under
\* warn and not under error, and the empty list never fails.
C10_ShouldFail ==
    pc = "judged" =>
        /\ failing <=> \E i \in 1..Len(arg) : Rank(arg[i].severity) >= Rank(Threshold)
        /\ arg = <<>> => ~failing
        /\ (arg # <<>> /\ \A i \in 1..Len(arg) : arg[i].severity = "warn") =>
              /\ (HasConfig /\ config.fail_on = "warn") => failing
              /\ (HasConfig /\ config.fail_on = "error") => ~failing

C10_Witness ==
    /\ pc = "judged" /\ HasConfig /\ config.fail_on = "warning"
    /\ Len(arg) = 2 /\ \A i \in 1..Len(arg) : arg[i].severity = "warn"
    /\ failing

(***************************************************************************)
(* The status of a run and its failure signal.                             *)
(***************************************************************************)
\* run has computed a status
StatusComputed == status # "none"

\* the threshold triggers failure on the final violation list
Triggers == \E i \in 1..Len(violations) : Rank(violations[i].severity) >= Rank(Threshold)

HasErrorViolation == \E i \in 1..Len(violations) : violations[i].severity = "error"

\* the three cases of the status, each reading the threshold and the final
\* list only, and the absent configuration
StatusCases ==
    /\ (HasErrorViolation /\ Triggers) => status = "fail"
    /\ (violations # <<>> /\ ~Triggers) => status = "warn"
    /\ violations = <<>> => status = "pass"
    /\ ~HasConfig => (~failing /\ status # "fail")

RunEnded == pc \in {"setFailed", "returned"}

Records(deps) == {deps[i] : i \in 1..Len(deps)}

NoRepeats(deps) == \A i, j \in 1..Len(deps) : deps[i] = deps[j] => i = j

\* the (name, version) records of the installation handed to CollectDeps
Installed ==
    {[name |-> q[Len(q)], version |-> arg.installation[q]] : q \in DOMAIN arg.installation}

HasNested == \E q \in DOMAIN arg.installation : Len(q) > 1

\* C12: collectDepsFromLock returns the same deduplicated set of (name,
\* version) records for the flat form and for the tree form of one
\* installation, packages nested below another package included; a manifest
\* that carries both forms is read from the flat form when that is non-empty
\* and from the tree form otherwise.
C12_FlatTreeEquivalent ==
    pc = "collected" =>
        /\ Records(result.flat) = Records(result.tree)
        /\ Records(result.tree) = Installed
        /\ NoRepeats(result.flat) /\ NoRepeats(result.tree)
        /\ arg.both.packages # <<>> => result.both = result.flat
        /\ arg.both.packages = <<>> =>
              Records(result.both) = {[name |-> arg.both.dependencies[i].name,
                                       version |-> arg.both.dependencies[i].version] :
                                         i \in 1..Len(arg.both.dependencies)}

(***************************************************************************)
(* The deny-rule parser.                                                   *)
(***************************************************************************)
\* the positions of "@" in the rule handed to ParseRule, counted from 1
AtPositions == {i \in 1..Len(arg) : arg[i] = "@"}

LastAt == CHOOSE i \in AtPositions : \A j \in AtPositions : j <= i

Blank(s) == \A i \in 1..Len(s) : s[i] = " "

Spaces(n) == [k \in 1..n |-> " "]

\* t is s without its leading and trailing spaces
IsTrimOf(t, s) ==
    /\ \E i, j \in 0..Len(s) : s = Spaces(i) \o t \o Spaces(j)
    /\ t # <<>> => (t[1] # " " /\ t[Len(t)] # " ")

\* C13: parseDenyRule splits the rule at its last "@" when that is not the
\* first character: the name is the text before it, the range the trimmed
\* text after it, and a blank text after it gives no range; with no "@", or
\* with "@" as the first character only, the name is the whole trimmed rule
\* and there is no range.
C13_ParseDenyRule ==
    pc = "parsed" =>
        /\ (AtPositions # {} /\ LastAt > 1) =>
              LET suffix == SubSeq(arg, LastAt + 1, Len(arg))
              IN /\ result.name = SubSeq(arg, 1, LastAt - 1)
                 /\ Blank(suffix) => result.range = NULL
                 /\ ~Blank(suffix) => (result.range # NULL /\ IsTrimOf(result.range, suffix))
        /\ (AtPositions = {} \/ AtPositions = {1}) =>
              /\ IsTrimOf(result.name, arg)
              /\ result.range = NULL
        /\ arg = <<"@", "s", "c", "o", "p", "e", "/", "p", "k", "g", "@", ">", "=", "1", " ", "<", "2">> => result = [name |-> <<"@", "s", "c", "o", "p", "e", "/", "p", "k", "g">>, range |-> <<">", "=", "1", " ", "<", "2">>]
        /\ arg = <<"@", "s", "c", "o", "p", "e", "/", "p", "k", "g">> => result = [name |-> <<"@", "s", "c", "o", "p", "e", "/", "p", "k", "g">>, range |-> NULL]
        /\ arg = <<"l", "e", "f", "t", "-", "p", "a", "d">> => result = [name |-> <<"l", "e", "f", "t", "-", "p", "a", "d">>, range |-> NULL]
        /\ arg = <<"l", "o", "d", "a", "s", "h", "@">> => result = [name |-> <<"l", "o", "d", "a", "s", "h">>, range |-> NULL]

C13_Witness ==
    /\ pc = "parsed"
    /\ arg = <<"@", "s", "c", "o", "p", "e", "/", "p", "k", "g", "@", ">", "=", "1", " ", "<", "2">>
    /\ result.name = <<"@", "s", "c", "o", "p", "e", "/", "p", "k", "g">>
    /\ result.range = <<">", "=", "1", " ", "<", "2">>

=============================================================================
